---- MODULE Spec2Model ----
(***************************************************************************)
(* Model of AccessibilityRoutingService                                    *)
(* (src/src/services/AccessibilityroutingService.ts): the accessibility    *)
(* knowledge base, the path cost model, the grid-expansion A* search and   *)
(* the route annotation.                                                   *)
(*                                                                         *)
(* Number representation.  Coordinates are integers counting half grid     *)
(* steps (0.00005 degrees), so that the search lattice (steps of 0.0001    *)
(* degrees) and points lying between lattice points are both expressible.  *)
(* The model sits at the equator, where the haversine distance of points   *)
(* a few steps apart is the Euclidean distance of their coordinates times  *)
(* 5.559746 m per unit.  Distances are computed to the centimetre (rounded *)
(* down) and every JavaScript number that is a length or a cost is a       *)
(* fixed-point integer counting 10^-6 m, so that the cost multipliers 1.5, *)
(* 0.8 and 0.9 are exact for up to four factors.  Coordinates produced by  *)
(* adding grid steps are exact (no floating-point drift).                  *)
(***************************************************************************)
EXTENDS Integers, Sequences, FiniteSets, TLC

VARIABLES
    features,          \* this.features: sequence of AccessibilityFeature
    obstacles,         \* this.obstacles: sequence of AccessibilityObstacle
    userPreferences,   \* this.userPreferences: AccessibilityPreferences or Null
    pc,                \* position of the running / last finished operation
    start,             \* findAccessibleRoute argument
    end,               \* findAccessibleRoute argument
    preferences,       \* findAccessibleRoute argument
    openSet,           \* Set<Location>: objects in insertion order
    cameFrom,          \* Map<string, Location>
    gScore,            \* Map<string, number>
    fScore,            \* Map<string, number>
    route,             \* the Location[] returned by / passed to the last call
    relevantFeatures,  \* the AccessibilityFeature[] returned by the last annotation
    removal            \* the last call, if it was removeObstacle: its argument
                       \* and this.obstacles as the call found it; else Null

kb   == <<features, obstacles, userPreferences>>
call == <<start, end, preferences, removal>>
srch == <<openSet, cameFrom, gScore, fScore>>
vars == <<features, obstacles, userPreferences, pc, start, end, preferences,
          openSet, cameFrom, gScore, fScore, route, relevantFeatures, removal>>

(***************************************************************************)
(* Bounds of the model                                                     *)
(***************************************************************************)
\* most obstacles plus features the knowledge base holds
MaxItems == 2
\* half-width of the modelled part of the (unbounded) lattice, in units
WindowRadius == 8

(***************************************************************************)
(* Numbers                                                                 *)
(***************************************************************************)
\* fixed-point units per centimetre
Scale == 10 * 10 * 10 * 10
\* fixed-point units per metre
Metre == 100 * Scale
\* JavaScript's Infinity: larger than every finite number of the model
Infinity == 2000000000
\* (R * pi / 180 * 0.00005 degrees)^2 in cm^2 for R = 6371e3 m
CmPerUnitSq == 309108
\* gridSize = 0.0001 degrees, in coordinate units
gridSize == 2

\* null / undefined: the value of a variable that holds no object
Null == [null |-> TRUE]

RECURSIVE SqrtIter(_, _, _)
SqrtIter(n, lo, hi) ==
    IF lo >= hi THEN lo
    ELSE LET mid == (lo + hi + 1) \div 2
         IN  IF mid * mid <= n THEN SqrtIter(n, mid, hi)
                               ELSE SqrtIter(n, lo, mid - 1)

\* Math.sqrt, rounded down to an integer
Sqrt(n) == SqrtIter(n, 0, 46340)

MaxSq == 2 * (2 * WindowRadius + 2) * (2 * WindowRadius + 2)

\* distance in fixed-point units of two points whose squared coordinate
\* distance is d2
DistanceOfSq == [d2 \in 0..MaxSq |-> Sqrt(d2 * CmPerUnitSq) * Scale]

\* a + b on numbers that may be Infinity
Plus(a, b) == IF a >= Infinity \/ b >= Infinity THEN Infinity ELSE a + b

(***************************************************************************)
(* Types (src/src/types/index.ts)                                          *)
(***************************************************************************)
\* NavigationLocation; accuracy = 0 stands for an absent optional field
Loc(lat, lon, acc) == [latitude |-> lat, longitude |-> lon, accuracy |-> acc]
Pt(lat, lon) == Loc(lat, lon, 0)

FeatureTypes == {"ramp", "elevator", "wide_pathway", "rest_area", "well_lit",
                 "tactile_paving"}
ObstacleTypes == {"stairs", "construction", "narrow_path", "poor_lighting",
                  "uneven_surface"}

Feature(t, l, a) == [type |-> t, location |-> l, isActive |-> a]
Obstacle(t, l) == [type |-> t, location |-> l]

\* AccessibilityPreferences; maximumSlope = 0 stands for an absent field
Prefs(w, l, r, s) == [requiresWheelchairAccess |-> w, preferWellLit |-> l,
                      needsRestStops |-> r, maximumSlope |-> s]

(***************************************************************************)
(* Geodesy                                                                 *)
(***************************************************************************)
calculateBaseDistance(a, b) ==
    DistanceOfSq[(b.latitude - a.latitude) * (b.latitude - a.latitude)
                 + (b.longitude - a.longitude) * (b.longitude - a.longitude)]

estimateDistance(a, b) == calculateBaseDistance(a, b)

isPointNearLine(point, lineStart, lineEnd, threshold) ==
    LET d1 == calculateBaseDistance(point, lineStart)
        d2 == calculateBaseDistance(point, lineEnd)
        lineLength == calculateBaseDistance(lineStart, lineEnd)
    IN  d1 + d2 < lineLength + threshold

locationToKey(location) == <<location.latitude, location.longitude>>

(***************************************************************************)
(* Maps keyed by locationToKey, as functions on the keys set so far        *)
(***************************************************************************)
EmptyMap == [k \in {} |-> 0]
MapHas(m, k) == k \in DOMAIN m
MapGet(m, k, default) == IF k \in DOMAIN m THEN m[k] ELSE default
MapSet(m, k, v) == [x \in DOMAIN m \cup {k} |-> IF x = k THEN v ELSE m[x]]

(***************************************************************************)
(* Knowledge base queries                                                  *)
(***************************************************************************)
\* 20: the threshold of the near-segment tests and of the accessibility test
NearThreshold == 20
\* 5: the arrival tolerance of isAtDestination
ArrivalThreshold == 5
\* 1: the radius of removeObstacle
RemoveRadius == 1

findFeaturesOnPath(s, e) ==
    LET Near(feature) ==
            isPointNearLine(feature.location, s, e, NearThreshold * Metre)
    IN  SelectSeq(features, Near)

findObstaclesOnPath(s, e) ==
    LET Near(obstacle) ==
            isPointNearLine(obstacle.location, s, e, NearThreshold * Metre)
    IN  SelectSeq(obstacles, Near)

\* a variant that looks at the first nearby obstacle only
AccessibleLoopFirstOnly(nearbyObstacles, prefs, i) ==
    IF i > Len(nearbyObstacles) THEN TRUE
    ELSE ~(prefs.requiresWheelchairAccess
           /\ nearbyObstacles[i].type \in {"stairs", "narrow_path"})

\* the loop of isLocationAccessible over nearbyObstacles, from index i
RECURSIVE AccessibleLoop(_, _, _)
AccessibleLoop(nearbyObstacles, prefs, i) ==
    IF i > Len(nearbyObstacles) THEN TRUE
    ELSE IF prefs.requiresWheelchairAccess
            /\ nearbyObstacles[i].type \in {"stairs", "narrow_path"}
         THEN FALSE
         ELSE AccessibleLoop(nearbyObstacles, prefs, i + 1)

isLocationAccessible(location, prefs) ==
    LET Nearby(obstacle) ==
            calculateBaseDistance(location, obstacle.location)
                < NearThreshold * Metre
        nearbyObstacles == SelectSeq(obstacles, Nearby)
    IN  AccessibleLoop(nearbyObstacles, prefs, 1)

(***************************************************************************)
(* Path cost model                                                         *)
(***************************************************************************)
\* a variant that stops after the first feature
FeatureLoopFirstOnly(weight, featuresOnPath, prefs, i) ==
    IF i > Len(featuresOnPath) \/ i > 1 THEN weight
    ELSE LET feature == featuresOnPath[i]
             w1 == IF prefs.requiresWheelchairAccess
                      /\ feature.type \in {"ramp", "elevator"}
                   THEN (weight * 8) \div 10 ELSE weight
         IN  IF prefs.needsRestStops /\ feature.type = "rest_area"
             THEN (w1 * 9) \div 10 ELSE w1

\* the loop over featuresOnPath, from index i, with the weight so far
RECURSIVE FeatureLoop(_, _, _, _)
FeatureLoop(weight, featuresOnPath, prefs, i) ==
    IF i > Len(featuresOnPath) THEN weight
    ELSE LET feature == featuresOnPath[i]
             w1 == IF prefs.requiresWheelchairAccess
                      /\ feature.type \in {"ramp", "elevator"}
                   THEN (weight * 8) \div 10 ELSE weight
             w2 == IF prefs.needsRestStops /\ feature.type = "rest_area"
                   THEN (w1 * 9) \div 10 ELSE w1
         IN  FeatureLoop(w2, featuresOnPath, prefs, i + 1)

\* the loop over obstaclesOnPath, from index i, with the weight so far; it
\* returns Infinity out of the whole function on a hard exclusion
RECURSIVE ObstacleLoop(_, _, _, _, _)
ObstacleLoop(weight, obstaclesOnPath, featuresOnPath, prefs, i) ==
    IF i > Len(obstaclesOnPath)
    THEN FeatureLoop(weight, featuresOnPath, prefs, 1)
    ELSE LET obstacle == obstaclesOnPath[i]
         IN  IF prefs.requiresWheelchairAccess
                /\ obstacle.type \in {"stairs", "narrow_path"}
             THEN Infinity
             ELSE ObstacleLoop(
                      IF prefs.preferWellLit /\ obstacle.type = "poor_lighting"
                      THEN (weight * 15) \div 10 ELSE weight,
                      obstaclesOnPath, featuresOnPath, prefs, i + 1)

\* a variant without the hard exclusion
calculatePathWeightNoExclusion(s, e, prefs) ==
    ObstacleLoop(calculateBaseDistance(s, e), findObstaclesOnPath(s, e),
                 findFeaturesOnPath(s, e),
                 [prefs EXCEPT !.requiresWheelchairAccess = FALSE], 1)

\* a variant whose hard exclusion is a penalty factor
calculatePathWeightSoftExclusion(s, e, prefs) ==
    IF ObstacleLoop(calculateBaseDistance(s, e), findObstaclesOnPath(s, e),
                    findFeaturesOnPath(s, e), prefs, 1) = Infinity
    THEN calculateBaseDistance(s, e) * 10
    ELSE ObstacleLoop(calculateBaseDistance(s, e), findObstaclesOnPath(s, e),
                      findFeaturesOnPath(s, e), prefs, 1)

\* a variant that consults maximumSlope: with a slope limit set, an edge
\* with any obstacle near it is excluded
calculatePathWeightSlope(s, e, prefs) ==
    IF prefs.maximumSlope > 0 /\ findObstaclesOnPath(s, e) # <<>>
    THEN Infinity
    ELSE ObstacleLoop(calculateBaseDistance(s, e), findObstaclesOnPath(s, e),
                      findFeaturesOnPath(s, e), prefs, 1)

\* a variant that prefers the stored preferences to its argument
calculatePathWeightStored(s, e, prefs) ==
    ObstacleLoop(calculateBaseDistance(s, e), findObstaclesOnPath(s, e),
                 findFeaturesOnPath(s, e),
                 IF userPreferences # Null THEN userPreferences ELSE prefs, 1)

calculatePathWeight(s, e, prefs) ==
    ObstacleLoop(calculateBaseDistance(s, e), findObstaclesOnPath(s, e),
                 findFeaturesOnPath(s, e), prefs, 1)

(***************************************************************************)
(* Grid-expansion A* search                                                *)
(***************************************************************************)
\* the (i, j) pairs of the two nested loops of getAccessibleNeighbors, in
\* the order the loops visit them
Offsets == << <<-1, -1>>, <<-1, 0>>, <<-1, 1>>, <<0, -1>>,
              <<0, 1>>, <<1, -1>>, <<1, 0>>, <<1, 1>> >>

NeighborAt(current, k) ==
    Pt(current.latitude + Offsets[k][1] * gridSize,
       current.longitude + Offsets[k][2] * gridSize)

\* a variant that does not test the neighbors
getAccessibleNeighborsUntested(current, prefs) ==
    [k \in 1..8 |-> NeighborAt(current, k)]

\* a variant that steps diagonally only
getAccessibleNeighborsDiagonal(current, prefs) ==
    LET Ok(neighbor) == /\ isLocationAccessible(neighbor, prefs)
                        /\ neighbor.latitude # current.latitude
                        /\ neighbor.longitude # current.longitude
    IN  SelectSeq([k \in 1..8 |-> NeighborAt(current, k)], Ok)

getAccessibleNeighbors(current, prefs) ==
    LET Ok(neighbor) == isLocationAccessible(neighbor, prefs)
    IN  SelectSeq([k \in 1..8 |-> NeighborAt(current, k)], Ok)

isAtDestination(current, e) ==
    calculateBaseDistance(current, e) < ArrivalThreshold * Metre

\* a variant in which the last of the nodes with the lowest score wins
RECURSIVE LowestLoopLastWins(_, _, _, _, _)
LowestLoopLastWins(open, f, i, lowest, lowestIndex) ==
    IF i > Len(open) THEN lowestIndex
    ELSE LET score == MapGet(f, locationToKey(open[i]), Infinity)
         IN  IF score <= lowest /\ score < Infinity
             THEN LowestLoopLastWins(open, f, i + 1, score, i)
             ELSE LowestLoopLastWins(open, f, i + 1, lowest, lowestIndex)

\* the forEach of getLowestFScore from position i: the index in the open set
\* of the node it ends with (0: lowestNode is still null)
RECURSIVE LowestLoop(_, _, _, _, _)
LowestLoop(open, f, i, lowest, lowestIndex) ==
    IF i > Len(open) THEN lowestIndex
    ELSE LET score == MapGet(f, locationToKey(open[i]), Infinity)
         IN  IF score < lowest
             THEN LowestLoop(open, f, i + 1, score, i)
             ELSE LowestLoop(open, f, i + 1, lowest, lowestIndex)

LowestIndex(open, f) == LowestLoop(open, f, 1, Infinity, 0)

getLowestFScore(open, f) == open[LowestIndex(open, f)]

\* the while loop of reconstructPath
RECURSIVE ReconstructLoop(_, _, _)
ReconstructLoop(came, current, path) ==
    IF MapHas(came, locationToKey(current))
    THEN LET previous == came[locationToKey(current)]
         IN  ReconstructLoop(came, previous, <<previous>> \o path)
    ELSE path

\* a variant that rebuilds each point of the path from its key
reconstructPathFromKeys(came, current) ==
    LET path == ReconstructLoop(came, current, <<current>>)
    IN  [n \in 1..Len(path) |-> Pt(path[n].latitude, path[n].longitude)]

reconstructPath(came, current) == ReconstructLoop(came, current, <<current>>)

\* Set.delete of the object at index i
DeleteAt(open, i) == [k \in 1..(Len(open) - 1) |-> IF k < i THEN open[k] ELSE open[k + 1]]

\* a variant whose default for a missing g score is 0
RelaxDefaultZero(st, current, neighbor, e, prefs) ==
    LET tentativeGScore ==
            Plus(st.gScore[locationToKey(current)],
                 calculatePathWeight(current, neighbor, prefs))
    IN  IF tentativeGScore < MapGet(st.gScore, locationToKey(neighbor), 0)
        THEN [st EXCEPT !.openSet = Append(st.openSet, neighbor)]
        ELSE st

\* a variant that opens every neighbor, scored or not
RelaxAddsUnscored(st, current, neighbor, e, prefs) ==
    LET tentativeGScore ==
            Plus(st.gScore[locationToKey(current)],
                 calculatePathWeight(current, neighbor, prefs))
    IN  IF tentativeGScore < MapGet(st.gScore, locationToKey(neighbor), Infinity)
        THEN [openSet  |-> Append(st.openSet, neighbor),
              cameFrom |-> MapSet(st.cameFrom, locationToKey(neighbor), current),
              gScore   |-> MapSet(st.gScore, locationToKey(neighbor), tentativeGScore),
              fScore   |-> MapSet(st.fScore, locationToKey(neighbor),
                                  Plus(tentativeGScore, estimateDistance(neighbor, e)))]
        ELSE [st EXCEPT !.openSet = Append(st.openSet, neighbor)]

\* the body of the for loop over the neighbors, for one neighbor, on the
\* record st of the four collections of the search
Relax(st, current, neighbor, e, prefs) ==
    LET tentativeGScore ==
            Plus(st.gScore[locationToKey(current)],
                 calculatePathWeight(current, neighbor, prefs))
    IN  IF tentativeGScore < MapGet(st.gScore, locationToKey(neighbor), Infinity)
        THEN [openSet  |-> Append(st.openSet, neighbor),
              cameFrom |-> MapSet(st.cameFrom, locationToKey(neighbor), current),
              gScore   |-> MapSet(st.gScore, locationToKey(neighbor), tentativeGScore),
              fScore   |-> MapSet(st.fScore, locationToKey(neighbor),
                                  Plus(tentativeGScore, estimateDistance(neighbor, e)))]
        ELSE st

RECURSIVE RelaxLoop(_, _, _, _, _, _)
RelaxLoop(st, current, neighbors, e, prefs, i) ==
    IF i > Len(neighbors) THEN st
    ELSE RelaxLoop(Relax(st, current, neighbors[i], e, prefs),
                   current, neighbors, e, prefs, i + 1)

\* one iteration of the while loop that does not return: delete current and
\* relax its accessible neighbors
ExpandNode(st, e, prefs) ==
    LET i == LowestIndex(st.openSet, st.fScore)
        current == st.openSet[i]
    IN  RelaxLoop([st EXCEPT !.openSet = DeleteAt(st.openSet, i)],
                  current, getAccessibleNeighbors(current, prefs), e, prefs, 1)

(***************************************************************************)
(* Route annotation                                                        *)
(***************************************************************************)
SameCoordinates(f, g) ==
    /\ f.location.latitude = g.location.latitude
    /\ f.location.longitude = g.location.longitude

\* a variant that pushes every feature of the segment
PushAll(relevant, featuresOnSegment, k) == relevant \o featuresOnSegment

\* featuresOnSegment.forEach: push each feature no entry of relevant shares
\* its coordinates with
RECURSIVE PushNew(_, _, _)
PushNew(relevant, featuresOnSegment, k) ==
    IF k > Len(featuresOnSegment) THEN relevant
    ELSE LET feature == featuresOnSegment[k]
         IN  PushNew(IF \E n \in 1..Len(relevant) : SameCoordinates(relevant[n], feature)
                     THEN relevant ELSE Append(relevant, feature),
                     featuresOnSegment, k + 1)

\* the for loop over the segments route[i], route[i + 1]
RECURSIVE SegmentLoop(_, _, _)
SegmentLoop(relevant, r, i) ==
    IF i > Len(r) - 1 THEN relevant
    ELSE LET OnSegment(feature) ==
                 /\ feature.isActive
                 /\ isPointNearLine(feature.location, r[i], r[i + 1],
                                    NearThreshold * Metre)
         IN  SegmentLoop(PushNew(relevant, SelectSeq(features, OnSegment), 1),
                         r, i + 1)

\* x put into the sorted sequence sorted, after every entry that is not
\* farther from origin than x (Array.prototype.sort is stable)
InsertByDistance(sorted, x, origin) ==
    LET d == calculateBaseDistance(origin, x.location)
        before == {n \in 1..Len(sorted) :
                      calculateBaseDistance(origin, sorted[n].location) <= d}
        cut == IF before = {} THEN 0
               ELSE CHOOSE n \in before : \A m \in before : m <= n
    IN  SubSeq(sorted, 1, cut) \o <<x>> \o SubSeq(sorted, cut + 1, Len(sorted))

\* a variant that leaves the features in the order they were pushed
SortNot(sorted, relevant, origin, k) == relevant

\* relevantFeatures.sort((a, b) => distance(route[0], a) - distance(route[0], b))
RECURSIVE SortByDistance(_, _, _, _)
SortByDistance(sorted, relevant, origin, k) ==
    IF k > Len(relevant) THEN sorted
    ELSE SortByDistance(InsertByDistance(sorted, relevant[k], origin),
                        relevant, origin, k + 1)

getAccessibleFeaturesOnRoute(r) ==
    IF Len(r) < 2 THEN <<>>
    ELSE SortByDistance(<<>>, SegmentLoop(<<>>, r, 1), r[1], 1)

(***************************************************************************)
(* The inputs the model draws from                                         *)
(***************************************************************************)
\* the device's position: a location that carries an accuracy
StartChoices == {Loc(0, 0, 5)}
EndChoices == {Pt(0, 0), Pt(2, 4), Pt(0, 6)}

NoPreferences == Prefs(FALSE, FALSE, FALSE, 0)
PreferenceChoices ==
    {NoPreferences, Prefs(TRUE, FALSE, FALSE, 0), Prefs(FALSE, FALSE, TRUE, 0),
     Prefs(FALSE, TRUE, FALSE, 0), Prefs(TRUE, TRUE, TRUE, 5)}
AllPreferences ==
    {Prefs(w, l, r, s) : w \in BOOLEAN, l \in BOOLEAN, r \in BOOLEAN, s \in {0, 5}}
StoredPreferenceChoices == {Prefs(TRUE, TRUE, TRUE, 5)}

ObstacleChoices ==
    {Obstacle("stairs", Pt(-1, -1)), Obstacle("narrow_path", Pt(2, 1)),
     Obstacle("poor_lighting", Pt(0, 2)), Obstacle("construction", Pt(-1, -1))}
FeatureChoices ==
    {Feature("rest_area", Pt(0, 1), TRUE), Feature("ramp", Pt(0, 1), FALSE),
     Feature("elevator", Pt(0, 1), TRUE), Feature("well_lit", Pt(2, 4), TRUE)}
RemoveChoices == {Pt(-1, -1), Pt(0, 2)}
RouteChoices ==
    {<<>>, <<Pt(0, 0)>>, <<Pt(2, 4), Pt(0, 0)>>, <<Pt(4, 4), Pt(2, 4), Pt(0, 6)>>}

InWindow(l) ==
    /\ l.latitude \in -WindowRadius..WindowRadius
    /\ l.longitude \in -WindowRadius..WindowRadius

(***************************************************************************)
(* The state machine                                                       *)
(***************************************************************************)
Init ==
    /\ features = <<>>
    /\ obstacles = <<>>
    /\ userPreferences = Null
    /\ pc = "idle"
    /\ start = Null
    /\ end = Null
    /\ preferences = Null
    /\ openSet = <<>>
    /\ cameFrom = EmptyMap
    /\ gScore = EmptyMap
    /\ fScore = EmptyMap
    /\ route = <<>>
    /\ relevantFeatures = <<>>
    /\ removal = Null

\* no call is running: the service takes the next call (findAccessibleRoute
\* has no await in its body, so nothing else runs before it returns)
Quiescent == pc \notin {"searching", "unbounded"}

\* the locals and the result of the previous search or annotation are gone
ForgetSearch ==
    /\ pc' = "idle"
    /\ start' = Null
    /\ end' = Null
    /\ preferences' = Null
    /\ openSet' = <<>>
    /\ cameFrom' = EmptyMap
    /\ gScore' = EmptyMap
    /\ fScore' = EmptyMap
    /\ route' = <<>>
    /\ relevantFeatures' = <<>>

\* the locals and the result of the previous call are gone
ForgetCall == ForgetSearch /\ removal' = Null

setUserPreferences(p) ==
    /\ Quiescent
    /\ userPreferences' = p
    /\ UNCHANGED <<features, obstacles>>
    /\ ForgetCall

addFeature(feature) ==
    /\ Quiescent
    /\ Len(features) + Len(obstacles) < MaxItems
    /\ features' = Append(features, feature)
    /\ UNCHANGED <<obstacles, userPreferences>>
    /\ ForgetCall

addObstacle(obstacle) ==
    /\ Quiescent
    /\ Len(features) + Len(obstacles) < MaxItems
    /\ obstacles' = Append(obstacles, obstacle)
    /\ UNCHANGED <<features, userPreferences>>
    /\ ForgetCall

\* a variant that deletes one obstacle, the first one at the location
removeObstacleFirstOnly(location) ==
    LET near == {n \in 1..Len(obstacles) :
                    calculateBaseDistance(obstacles[n].location, location)
                        <= RemoveRadius * Metre}
        first == CHOOSE n \in near : \A m \in near : n <= m
    IN  /\ Quiescent
        /\ obstacles' = IF near = {} THEN obstacles ELSE DeleteAt(obstacles, first)
        /\ UNCHANGED <<features, userPreferences>>
        /\ ForgetSearch
        /\ removal' = [location |-> location, obstacles |-> obstacles]

removeObstacle(location) ==
    LET Keep(obs) ==
            calculateBaseDistance(obs.location, location) > RemoveRadius * Metre
    IN  /\ Quiescent
        /\ obstacles' = SelectSeq(obstacles, Keep)
        /\ UNCHANGED <<features, userPreferences>>
        /\ ForgetSearch
        /\ removal' = [location |-> location, obstacles |-> obstacles]

\* a variant whose g scores are a field of the service, kept between calls
findAccessibleRouteKeepScores(s, e, p) ==
    /\ Quiescent
    /\ pc' = "searching"
    /\ start' = s
    /\ end' = e
    /\ preferences' = p
    /\ openSet' = <<s>>
    /\ cameFrom' = EmptyMap
    /\ gScore' = MapSet(gScore, locationToKey(s), 0)
    /\ fScore' = MapSet(EmptyMap, locationToKey(s), estimateDistance(s, e))
    /\ route' = <<>>
    /\ relevantFeatures' = <<>>
    /\ removal' = Null
    /\ UNCHANGED kb

\* the call of findAccessibleRoute up to the while loop
findAccessibleRoute(s, e, p) ==
    /\ Quiescent
    /\ pc' = "searching"
    /\ start' = s
    /\ end' = e
    /\ preferences' = p
    /\ openSet' = <<s>>
    /\ cameFrom' = EmptyMap
    /\ gScore' = MapSet(EmptyMap, locationToKey(s), 0)
    /\ fScore' = MapSet(EmptyMap, locationToKey(s), estimateDistance(s, e))
    /\ route' = <<>>
    /\ relevantFeatures' = <<>>
    /\ removal' = Null
    /\ UNCHANGED kb

Selectable == pc = "searching" /\ openSet # <<>> /\ LowestIndex(openSet, fScore) # 0

\* the loop ends: throw 'No accessible route found', or getLowestFScore
\* throws 'No nodes in open set'
Throw ==
    /\ pc = "searching"
    /\ ~Selectable
    /\ pc' = IF openSet = <<>> THEN "noroute" ELSE "emptyfrontier"
    /\ UNCHANGED <<kb, call, srch, route, relevantFeatures>>

\* an iteration that finds current at the destination
Return ==
    /\ Selectable
    /\ isAtDestination(getLowestFScore(openSet, fScore), end)
    /\ route' = reconstructPath(cameFrom, getLowestFScore(openSet, fScore))
    /\ pc' = "found"
    /\ UNCHANGED <<kb, call, srch, relevantFeatures>>

\* every neighbor of l lies in the modelled window
Interior(l) == \A k \in 1..8 : InWindow(NeighborAt(l, k))

\* an iteration that expands current
Expand ==
    /\ Selectable
    /\ ~isAtDestination(getLowestFScore(openSet, fScore), end)
    /\ Interior(getLowestFScore(openSet, fScore))
    /\ LET st == ExpandNode([openSet |-> openSet, cameFrom |-> cameFrom,
                             gScore |-> gScore, fScore |-> fScore],
                            end, preferences)
       IN  /\ openSet' = st.openSet
           /\ cameFrom' = st.cameFrom
           /\ gScore' = st.gScore
           /\ fScore' = st.fScore
    /\ UNCHANGED <<kb, call, pc, route, relevantFeatures>>

\* an iteration that selects a node on the edge of the window.  Obstacles lie
\* at least 2 * gridSize inside the edge, so the node is in the unbounded
\* obstacle-free part of the lattice, where every node has eight accessible
\* neighbors over finite edges: from here on the open set never empties, and
\* the loop either returns a route later or runs forever.  The model does not
\* follow it further; no other call can run, the loop being synchronous
LeaveWindow ==
    /\ Selectable
    /\ ~isAtDestination(getLowestFScore(openSet, fScore), end)
    /\ ~Interior(getLowestFScore(openSet, fScore))
    /\ pc' = "unbounded"
    /\ UNCHANGED <<kb, call, srch, route, relevantFeatures>>

\* getAccessibleFeaturesOnRoute on the route just found
AnnotateFound ==
    /\ pc = "found"
    /\ pc' = "annotated"
    /\ relevantFeatures' = getAccessibleFeaturesOnRoute(route)
    /\ UNCHANGED <<kb, call, srch, route>>

\* getAccessibleFeaturesOnRoute on a route of the caller's
AnnotateRoute(r) ==
    /\ Quiescent
    /\ pc' = "annotated"
    /\ route' = r
    /\ relevantFeatures' = getAccessibleFeaturesOnRoute(r)
    /\ start' = Null
    /\ end' = Null
    /\ preferences' = Null
    /\ openSet' = <<>>
    /\ cameFrom' = EmptyMap
    /\ gScore' = EmptyMap
    /\ fScore' = EmptyMap
    /\ removal' = Null
    /\ UNCHANGED kb

Next ==
    \/ \E p \in StoredPreferenceChoices : setUserPreferences(p)
    \/ \E f \in FeatureChoices : addFeature(f)
    \/ \E o \in ObstacleChoices : addObstacle(o)
    \/ \E l \in RemoveChoices : removeObstacle(l)
    \/ \E s \in StartChoices, e \in EndChoices, p \in PreferenceChoices :
           findAccessibleRoute(s, e, p)
    \/ Throw
    \/ Return
    \/ Expand
    \/ LeaveWindow
    \/ AnnotateFound
    \/ \E r \in RouteChoices : AnnotateRoute(r)

Spec == Init /\ [][Next]_vars

(***************************************************************************)
(* Searches on the empty knowledge base, from and to points on and off     *)
(* the lattice that the search generates from start                        *)
(***************************************************************************)
OpenStartChoices == {Loc(0, 0, 5), Pt(1, -1)}
OpenEndChoices ==
    {Pt(0, 0), Pt(0, 2), Pt(2, 4), Pt(0, 6), Pt(-4, -2), Pt(1, 1), Pt(0, 3), Pt(-3, 2)}

OpenNext ==
    \/ \E s \in OpenStartChoices, e \in OpenEndChoices, p \in PreferenceChoices :
           findAccessibleRoute(s, e, p)
    \/ Return
    \/ Expand
    \/ LeaveWindow

OpenSpec == Init /\ [][OpenNext]_vars

(***************************************************************************)
(* findAccessibleRoute as a function of its arguments and the knowledge    *)
(* base: the while loop run to its end                                     *)
(***************************************************************************)
\* the collections of the search as findAccessibleRoute sets them up
InitialSearch(s, e) ==
    [openSet  |-> <<s>>,
     cameFrom |-> EmptyMap,
     gScore   |-> MapSet(EmptyMap, locationToKey(s), 0),
     fScore   |-> MapSet(EmptyMap, locationToKey(s), estimateDistance(s, e))]

\* the while loop from the collections st on: how it ends and what it
\* returns ("unbounded": it selects a node on the edge of the window)
RECURSIVE SearchLoop(_, _, _)
SearchLoop(st, e, prefs) ==
    IF st.openSet = <<>> THEN [pc |-> "noroute", route |-> <<>>]
    ELSE IF LowestIndex(st.openSet, st.fScore) = 0
    THEN [pc |-> "emptyfrontier", route |-> <<>>]
    ELSE LET current == getLowestFScore(st.openSet, st.fScore)
         IN  IF isAtDestination(current, e)
             THEN [pc |-> "found", route |-> reconstructPath(st.cameFrom, current)]
             ELSE IF ~Interior(current) THEN [pc |-> "unbounded", route |-> <<>>]
             ELSE SearchLoop(ExpandNode(st, e, prefs), e, prefs)

SearchOutcome(s, e, prefs) == SearchLoop(InitialSearch(s, e), e, prefs)

(***************************************************************************)
(* Properties                                                              *)
(***************************************************************************)
HardTypes == {"stairs", "narrow_path"}

\* a stairs or narrow_path obstacle passes the near-segment test for (a, b)
HardObstacleNear(a, b) ==
    \E n \in 1..Len(obstacles) :
        /\ obstacles[n].type \in HardTypes
        /\ isPointNearLine(obstacles[n].location, a, b, NearThreshold * Metre)

\* C1: a returned route is non-empty, its first point is the start argument
\* itself and its last point is less than 5 m from end
C1_RouteFromStartToArrival ==
    pc = "found" =>
        /\ Len(route) >= 1
        /\ route[1] = start
        /\ calculateBaseDistance(route[Len(route)], end) < ArrivalThreshold * Metre

\* a route of several hops was returned
C1_Witness == pc = "found" /\ Len(route) >= 3 /\ route[Len(route)] # start

\* C2: with requiresWheelchairAccess no consecutive pair of a returned route
\* has a stairs or narrow_path obstacle near it, so every edge weight is finite
C2_NoHardExcludedTransition ==
    (pc = "found" /\ preferences.requiresWheelchairAccess) =>
        \A n \in 1..(Len(route) - 1) :
            /\ ~HardObstacleNear(route[n], route[n + 1])
            /\ calculatePathWeight(route[n], route[n + 1], preferences) < Infinity

\* a route was returned although an accessible neighbor of start lies
\* across a hard-excluded edge
C2_Witness ==
    /\ pc = "found"
    /\ preferences.requiresWheelchairAccess
    /\ Len(route) >= 2
    /\ \E k \in 1..8 :
           /\ isLocationAccessible(NeighborAt(start, k), preferences)
           /\ HardObstacleNear(start, NeighborAt(start, k))

\* the keys of the lattice points one transition away from the point with
\* key k: neighbors that pass isLocationAccessible over a finite edge weight
Transitions(k, prefs) ==
    {locationToKey(NeighborAt(Pt(k[1], k[2]), j)) : j \in
        {j \in 1..8 :
            /\ InWindow(NeighborAt(Pt(k[1], k[2]), j))
            /\ isLocationAccessible(NeighborAt(Pt(k[1], k[2]), j), prefs)
            /\ calculatePathWeight(Pt(k[1], k[2]), NeighborAt(Pt(k[1], k[2]), j),
                                   prefs) < Infinity}}

RECURSIVE ReachLoop(_, _, _)
ReachLoop(seen, frontier, prefs) ==
    IF frontier = {} THEN seen
    ELSE LET new == UNION {Transitions(k, prefs) : k \in frontier} \ seen
         IN  ReachLoop(seen \cup new, new, prefs)

\* the keys of the points of the window reachable from s.  The edge of the
\* window is obstacle-free and connected, so a point of the window that is
\* reachable at all is reachable inside the window
Reachable(s, prefs) == ReachLoop({locationToKey(s)}, {locationToKey(s)}, prefs)

\* some point less than 5 m from e is reachable from the points of frontier
RECURSIVE ArrivalLoop(_, _, _, _)
ArrivalLoop(seen, frontier, e, prefs) ==
    IF frontier = {} THEN FALSE
    ELSE IF \E k \in frontier : isAtDestination(Pt(k[1], k[2]), e) THEN TRUE
    ELSE LET new == UNION {Transitions(k, prefs) : k \in frontier} \ seen
         IN  ArrivalLoop(seen \cup new, new, e, prefs)

\* some point less than 5 m from e is reachable from s
ArrivalReachable(s, e, prefs) ==
    ArrivalLoop({locationToKey(s)}, {locationToKey(s)}, e, prefs)

\* C3: the search fails only with an empty open set and only when no point
\* less than 5 m from end is reachable from start; a route it returns ends
\* less than 5 m from end
C3_FailsOnlyWhenUnreachable ==
    /\ pc = "noroute" =>
           /\ openSet = <<>>
           /\ route = <<>>
           /\ ~ArrivalReachable(start, end, preferences)
           /\ DOMAIN gScore = Reachable(start, preferences)
    /\ pc = "found" => isAtDestination(route[Len(route)], end)

\* the search failed where start has an accessible neighbor that only a
\* hard-excluded edge leads to
C3_Witness ==
    /\ pc = "noroute"
    /\ \E k \in 1..8 : isLocationAccessible(NeighborAt(start, k), preferences)

\* the search has no path to the arrival zone: hard exclusions (which need
\* requiresWheelchairAccess and a stairs or narrow_path obstacle) cut every
\* path from start to a point less than 5 m from end
AllPathsBlocked ==
    /\ preferences.requiresWheelchairAccess
    /\ \E n \in 1..Len(obstacles) : obstacles[n].type \in HardTypes
    /\ ~ArrivalReachable(start, end, preferences)

\* C4: a search all of whose paths to the arrival zone are blocked ends, and
\* ends with the 'No accessible route found' failure: it does not go on into
\* the unbounded part of the lattice, where it runs forever
C4_BlockedSearchEndsWithNoRoute ==
    (pc \in {"found", "emptyfrontier", "unbounded"}) => ~AllPathsBlocked

\* the sum of the edge weights of the consecutive pairs of r
RECURSIVE RouteCost(_, _, _)
RouteCost(r, prefs, n) ==
    IF n >= Len(r) THEN 0
    ELSE Plus(calculatePathWeight(r[n], r[n + 1], prefs), RouteCost(r, prefs, n + 1))

Min(a, b) == IF a <= b THEN a ELSE b
Max(a, b) == IF a >= b THEN a ELSE b

\* the keys of the lattice points of the box around s and e, one grid step
\* wider than the two points on every side
LocalNodes(s, e) ==
    {k \in ((Min(s.latitude, e.latitude) - gridSize)
                ..(Max(s.latitude, e.latitude) + gridSize))
           \X ((Min(s.longitude, e.longitude) - gridSize)
                ..(Max(s.longitude, e.longitude) + gridSize)) :
        /\ (k[1] - s.latitude) % gridSize = 0
        /\ (k[2] - s.longitude) % gridSize = 0}

Adjacent(k, m) ==
    /\ k # m
    /\ k[1] - m[1] \in {-gridSize, 0, gridSize}
    /\ k[2] - m[2] \in {-gridSize, 0, gridSize}

\* the least of the numbers of the non-empty set S
Least(S) == CHOOSE x \in S : \A y \in S : x <= y

\* Bellman-Ford rounds on the cost d of the cheapest path found so far from
\* start to each node, over neighbors that pass isLocationAccessible
RECURSIVE CheapestLoop(_, _, _, _)
CheapestLoop(d, nodes, prefs, rounds) ==
    LET next == [k \in nodes |->
                    Least({d[k]} \cup
                          {Plus(d[m], calculatePathWeight(Pt(m[1], m[2]),
                                                          Pt(k[1], k[2]), prefs)) :
                              m \in {m \in nodes :
                                        /\ Adjacent(k, m)
                                        /\ d[m] < Infinity
                                        /\ isLocationAccessible(Pt(k[1], k[2]), prefs)}})]
    IN  IF rounds = 0 \/ next = d THEN d
        ELSE CheapestLoop(next, nodes, prefs, rounds - 1)

\* the least total edge weight of a lattice path from s, inside the box
\* around s and e, to a point less than 5 m from e (Infinity: there is none)
MinimumCost(s, e, prefs) ==
    LET nodes == LocalNodes(s, e)
        d == CheapestLoop([k \in nodes |-> IF k = locationToKey(s) THEN 0 ELSE Infinity],
                          nodes, prefs, Cardinality(nodes))
    IN  Least({Infinity} \cup
              {d[k] : k \in {k \in nodes : isAtDestination(Pt(k[1], k[2]), e)}})

\* C5: a returned route has minimum total cost among the lattice paths from
\* start to a point less than 5 m from end.  Stated for knowledge bases whose
\* features are all active
C5_RouteHasMinimumCost ==
    (pc = "found" /\ \A n \in 1..Len(features) : features[n].isActive) =>
        RouteCost(route, preferences, 1) <= MinimumCost(start, end, preferences)

\* the points the properties of the pure functions are checked on: lattice
\* points around the origin, the ends, and points between lattice points
SamplePoints ==
    {Pt(0, 0), Pt(0, 2), Pt(2, 2), Pt(-2, 2), Pt(2, 0), Pt(2, 4), Pt(1, 1),
     Pt(-1, -1)}

\* C6: with requiresWheelchairAccess the edge weight is Infinity whenever a
\* stairs or narrow_path obstacle is near the segment, whatever else is near
\* it and in whatever order; without it the edge weight is finite.  (The
\* edge weight reads the knowledge base only, which changes only in steps
\* that end with pc = "idle".)
C6_HardExclusionIsInfinite ==
    pc = "idle" =>
        \A a \in SamplePoints, b \in SamplePoints, p \in AllPreferences :
            /\ (p.requiresWheelchairAccess /\ HardObstacleNear(a, b))
                   => calculatePathWeight(a, b, p) = Infinity
            /\ ~p.requiresWheelchairAccess => calculatePathWeight(a, b, p) < Infinity

\* a hard obstacle comes after a poor_lighting obstacle, both near a segment
C6_Witness ==
    /\ pc = "idle"
    /\ Len(obstacles) = 2
    /\ obstacles[1].type = "poor_lighting"
    /\ obstacles[2].type \in HardTypes
    /\ \E a \in SamplePoints, b \in SamplePoints :
           /\ Len(findObstaclesOnPath(a, b)) = 2
           /\ calculatePathWeight(a, b, Prefs(TRUE, TRUE, TRUE, 0)) = Infinity

RECURSIVE Power(_, _)
Power(x, n) == IF n = 0 THEN 1 ELSE x * Power(x, n - 1)

\* how many entries of seq whose type is in types are near the segment (a, b)
NearCount(seq, types, a, b) ==
    Cardinality({n \in 1..Len(seq) :
                    /\ seq[n].type \in types
                    /\ isPointNearLine(seq[n].location, a, b, NearThreshold * Metre)})

\* d * 1.5^nl * 0.8^nr * 0.9^ns
Compounded(d, nl, nr, ns) ==
    (d \div Power(10, nl + nr + ns)) * Power(15, nl) * Power(8, nr) * Power(9, ns)

\* C7: without a hard exclusion the edge weight is the distance times 1.5 per
\* near poor_lighting obstacle (preferWellLit), 0.8 per near ramp or elevator
\* (requiresWheelchairAccess) and 0.9 per near rest_area (needsRestStops);
\* with the three flags false it is the distance
C7_WeightCompoundsPerItem ==
    pc = "idle" =>
        \A a \in SamplePoints, b \in SamplePoints, p \in AllPreferences :
            ~(p.requiresWheelchairAccess /\ HardObstacleNear(a, b)) =>
                /\ calculatePathWeight(a, b, p) =
                       Compounded(calculateBaseDistance(a, b),
                           IF p.preferWellLit
                           THEN NearCount(obstacles, {"poor_lighting"}, a, b) ELSE 0,
                           IF p.requiresWheelchairAccess
                           THEN NearCount(features, {"ramp", "elevator"}, a, b) ELSE 0,
                           IF p.needsRestStops
                           THEN NearCount(features, {"rest_area"}, a, b) ELSE 0)
                /\ (~p.requiresWheelchairAccess /\ ~p.preferWellLit /\ ~p.needsRestStops)
                       => calculatePathWeight(a, b, p) = calculateBaseDistance(a, b)

\* the same rest_area twice near a segment: the weight is 0.81 of the distance
C7_Witness ==
    /\ pc = "idle"
    /\ \E a \in SamplePoints, b \in SamplePoints :
           /\ NearCount(features, {"rest_area"}, a, b) = 2
           /\ calculateBaseDistance(a, b) > 0
           /\ calculatePathWeight(a, b, Prefs(FALSE, FALSE, TRUE, 0)) * 100
                  = calculateBaseDistance(a, b) * 81

\* C8: isLocationAccessible is false exactly when requiresWheelchairAccess is
\* set and a stairs or narrow_path obstacle is less than 20 m from the point
C8_AccessibleIffNoHardObstacleNear ==
    pc = "idle" =>
        \A l \in SamplePoints, p \in AllPreferences :
            isLocationAccessible(l, p) =
                ~(/\ p.requiresWheelchairAccess
                  /\ \E n \in 1..Len(obstacles) :
                         /\ obstacles[n].type \in HardTypes
                         /\ calculateBaseDistance(l, obstacles[n].location)
                                < NearThreshold * Metre)

\* a point with a construction site and, after it, stairs less than 20 m away
C8_Witness ==
    /\ pc = "idle"
    /\ Len(obstacles) = 2
    /\ obstacles[1].type \notin HardTypes
    /\ obstacles[2].type \in HardTypes
    /\ \E l \in SamplePoints :
           /\ \A n \in 1..2 : calculateBaseDistance(l, obstacles[n].location)
                                  < NearThreshold * Metre
           /\ ~isLocationAccessible(l, Prefs(TRUE, FALSE, FALSE, 0))
           /\ isLocationAccessible(l, Prefs(FALSE, TRUE, TRUE, 0))

\* feature f passes the near-segment test on a consecutive pair of r
NearSomePair(f, r) ==
    \E i \in 1..(Len(r) - 1) :
        isPointNearLine(f.location, r[i], r[i + 1], NearThreshold * Metre)

\* C9: for a route of at least 2 points the annotation holds only active
\* features of the knowledge base that are near a pair of the route, no two
\* entries with the same coordinates, and an entry at the coordinates of
\* every active feature near a pair
C9_AnnotationIsTheNearActiveFeatures ==
    (pc = "annotated" /\ Len(route) >= 2) =>
        /\ \A n \in 1..Len(relevantFeatures) :
               /\ relevantFeatures[n].isActive
               /\ NearSomePair(relevantFeatures[n], route)
               /\ \E m \in 1..Len(features) : features[m] = relevantFeatures[n]
        /\ \A n \in 1..Len(relevantFeatures), m \in 1..Len(relevantFeatures) :
               SameCoordinates(relevantFeatures[n], relevantFeatures[m]) => n = m
        /\ \A m \in 1..Len(features) :
               (features[m].isActive /\ NearSomePair(features[m], route)) =>
                   \E n \in 1..Len(relevantFeatures) :
                       SameCoordinates(relevantFeatures[n], features[m])

\* two different active features at the same coordinates, near a route of
\* several pairs: one entry
C9_Witness ==
    /\ pc = "annotated"
    /\ Len(route) >= 3
    /\ Len(features) = 2
    /\ features[1] # features[2]
    /\ SameCoordinates(features[1], features[2])
    /\ features[1].isActive /\ features[2].isActive
    /\ NearSomePair(features[1], route)
    /\ Len(relevantFeatures) = 1

\* C10: the annotation is ordered by non-decreasing distance from the first
\* point of the route
C10_AnnotationSortedFromStart ==
    (pc = "annotated" /\ Len(route) >= 2) =>
        \A n \in 1..(Len(relevantFeatures) - 1) :
            calculateBaseDistance(route[1], relevantFeatures[n].location)
                <= calculateBaseDistance(route[1], relevantFeatures[n + 1].location)

\* two features come out in the reverse of their order in the knowledge base
C10_Witness ==
    /\ pc = "annotated"
    /\ Len(features) = 2
    /\ relevantFeatures = <<features[2], features[1]>>
    /\ calculateBaseDistance(route[1], features[2].location)
           < calculateBaseDistance(route[1], features[1].location)

\* the indices of the obstacles of seq more than 1 m from location
FarIndices(seq, location) ==
    {n \in 1..Len(seq) :
        calculateBaseDistance(seq[n].location, location) > RemoveRadius * Metre}

\* C11: after removeObstacle the obstacles are exactly the previous ones
\* more than 1 m from the point, in their previous order; features and
\* stored preferences are as before; a second removeObstacle at the same
\* point changes nothing
C11_RemoveKeepsExactlyTheFarObstacles ==
    /\ [](removal # Null =>
            LET far == FarIndices(removal.obstacles, removal.location)
            IN  /\ Len(obstacles) = Cardinality(far)
                /\ \E idx \in [1..Len(obstacles) -> far] :
                       /\ \A j \in 1..Len(obstacles), k \in 1..Len(obstacles) :
                              j < k => idx[j] < idx[k]
                       /\ \A k \in 1..Len(obstacles) :
                              obstacles[k] = removal.obstacles[idx[k]]
                /\ FarIndices(obstacles, removal.location) = 1..Len(obstacles))
    /\ [][removal' # Null => UNCHANGED <<features, userPreferences>>]_vars
    /\ [][(removal # Null /\ removal' # Null
              /\ removal'.location = removal.location) => obstacles' = obstacles]_vars

\* removeObstacle found the same obstacle twice at its point and left none
C11_Witness ==
    /\ removal # Null
    /\ Len(removal.obstacles) = 2
    /\ removal.obstacles[1] = removal.obstacles[2]
    /\ FarIndices(removal.obstacles, removal.location) = {}
    /\ obstacles = <<>>

\* the call is a search on the empty knowledge base with all flags false,
\* from (0, 0) to a lattice point due east of it
EastwardOpenSearch ==
    /\ pc \in {"searching", "found", "noroute", "emptyfrontier", "unbounded"}
    /\ features = <<>> /\ obstacles = <<>>
    /\ ~preferences.requiresWheelchairAccess
    /\ ~preferences.preferWellLit
    /\ ~preferences.needsRestStops
    /\ start.latitude = 0 /\ start.longitude = 0
    /\ end.latitude = 0 /\ end.longitude > 0 /\ end.longitude % gridSize = 0

\* C12: such a search does not fail and does not go on without end, and in
\* the route it returns every point is strictly closer to end than the
\* point before it, the last one less than 5 m from end
C12_OpenSearchApproachesEnd ==
    EastwardOpenSearch =>
        /\ pc \in {"searching", "found"}
        /\ pc = "found" =>
               /\ Len(route) >= 1
               /\ \A n \in 1..(Len(route) - 1) :
                      calculateBaseDistance(route[n + 1], end)
                          < calculateBaseDistance(route[n], end)
               /\ calculateBaseDistance(route[Len(route)], end)
                      < ArrivalThreshold * Metre

\* the search to (0, 0.0003) returned a route of four points
C12_Witness ==
    /\ EastwardOpenSearch
    /\ pc = "found"
    /\ end = Pt(0, 6)
    /\ Len(route) = 4

\* values of maximumSlope the properties range over
ReservedValues == {0, 5}

\* the preferences that differ from p at most in the reserved fields
\* maximumSlope and minimumPathWidth (an optional field: absent or a number)
ReservedVariants(p) ==
    {[p EXCEPT !.maximumSlope = s] : s \in ReservedValues}
    \cup {[f \in DOMAIN p \cup {"minimumPathWidth"} |->
              IF f = "minimumPathWidth" THEN 1
              ELSE IF f = "maximumSlope" THEN s ELSE p[f]] : s \in ReservedValues}

\* C13: preferences that differ only in maximumSlope and minimumPathWidth
\* give the same isLocationAccessible and calculatePathWeight results, and
\* the search that ran under one of them ends as it would under the others
\* (the two functions read the knowledge base only, and every knowledge
\* base is reached by additions alone, in a state with pc = "idle" that
\* follows no removal)
C13_ReservedFieldsAreInert ==
    [](/\ (pc = "idle" /\ removal = Null) =>
            \A p \in PreferenceChoices : \A q \in ReservedVariants(p) \ {p} :
                \A a \in SamplePoints :
                    /\ isLocationAccessible(a, q) = isLocationAccessible(a, p)
                    /\ \A b \in SamplePoints :
                           calculatePathWeight(a, b, q) = calculatePathWeight(a, b, p)
       /\ pc \in {"found", "noroute", "emptyfrontier", "unbounded"} =>
            \A q \in ReservedVariants(preferences) \ {preferences} :
                SearchOutcome(start, end, q) = [pc |-> pc, route |-> route])

\* a search under preferences with a maximumSlope returned a route past a
\* hard obstacle and past a feature that discounts its edges
C13_Witness ==
    /\ pc = "found"
    /\ preferences.maximumSlope = 5
    /\ preferences.requiresWheelchairAccess
    /\ Len(route) >= 3
    /\ \E n \in 1..Len(obstacles) : obstacles[n].type \in HardTypes

\* C14: the steps of findAccessibleRoute and getAccessibleFeaturesOnRoute
\* leave features, obstacles and userPreferences as they are, and the way a
\* search ends is a function of its arguments and the knowledge base alone,
\* whatever calls came before it
C14_SearchAndAnnotationKeepNoState ==
    /\ [][pc' \in {"searching", "found", "noroute", "emptyfrontier",
                    "unbounded", "annotated"} => UNCHANGED kb]_vars
    /\ [](pc \in {"found", "noroute", "emptyfrontier", "unbounded"} =>
              [pc |-> pc, route |-> route] = SearchOutcome(start, end, preferences))
    /\ [](pc = "annotated" => relevantFeatures = getAccessibleFeaturesOnRoute(route))

\* a route was found and annotated on a knowledge base that holds an
\* obstacle and a feature, and stored preferences
C14_Witness ==
    /\ pc = "annotated"
    /\ start # Null
    /\ Len(route) >= 2
    /\ relevantFeatures # <<>>
    /\ obstacles # <<>>
    /\ userPreferences # Null

\* C15: every point of a returned route but the first passes
\* isLocationAccessible under the preferences of the search, and consecutive
\* points are one grid step apart in latitude, in longitude or in both
C15_RoutePointsAccessibleAndAdjacent ==
    pc = "found" =>
        /\ \A n \in 2..Len(route) :
               /\ isLocationAccessible(route[n], preferences)
               /\ preferences.requiresWheelchairAccess =>
                      \A m \in 1..Len(obstacles) :
                          obstacles[m].type \in HardTypes =>
                              calculateBaseDistance(route[n], obstacles[m].location)
                                  >= NearThreshold * Metre
        /\ \A n \in 1..(Len(route) - 1) :
               /\ route[n + 1].latitude - route[n].latitude \in {-gridSize, 0, gridSize}
               /\ route[n + 1].longitude - route[n].longitude \in {-gridSize, 0, gridSize}
               /\ locationToKey(route[n + 1]) # locationToKey(route[n])

\* a route was returned from a start that does not pass
\* isLocationAccessible itself: the start is never tested
C15_Witness ==
    /\ pc = "found"
    /\ Len(route) >= 3
    /\ route[1] = start
    /\ ~isLocationAccessible(start, preferences)

\* C16: in every state of the search the open set holds at most one entry
\* per (latitude, longitude) pair
C16_OpenSetHasOneEntryPerPoint ==
    pc = "searching" =>
        \A i \in 1..Len(openSet), j \in 1..Len(openSet) :
            locationToKey(openSet[i]) = locationToKey(openSet[j]) => i = j

\* the f score the loop reads for the entry at index i of the open set
OpenScore(i) == MapGet(fScore, locationToKey(openSet[i]), Infinity)

\* C17: the point the loop selects has an f score no greater than that of
\* any entry of the open set, and no entry with the same f score entered
\* the open set before it
C17_SelectsEarliestLowestF ==
    Selectable =>
        LET i == LowestIndex(openSet, fScore)
            lowest == OpenScore(i)
        IN  \A j \in 1..Len(openSet) :
                /\ lowest <= OpenScore(j)
                /\ OpenScore(j) = lowest => i <= j

\* the selected point is not the oldest entry of the open set, and a later
\* entry for another point has the same f score
C17_Witness ==
    /\ Selectable
    /\ LowestIndex(openSet, fScore) > 1
    /\ \E j \in (LowestIndex(openSet, fScore) + 1)..Len(openSet) :
           /\ OpenScore(j) = OpenScore(LowestIndex(openSet, fScore))
           /\ locationToKey(openSet[j])
                  # locationToKey(openSet[LowestIndex(openSet, fScore)])

\* lattice points the heuristic is compared on
HeuristicPoints == {Pt(0, 0), Pt(0, 2), Pt(2, 2), Pt(-2, 2)}

\* distances are rounded down to the centimetre, so the weights of a path of
\* up to ten edges may sum to 10 cm less than the distance they cover
RoundingSlack == 10 * Scale

\* C18: estimateDistance(n, end) never exceeds the least total edge weight
\* of a lattice path from n to a point less than 5 m from end.  Stated for
\* knowledge bases whose features are all active
C18_HeuristicIsAdmissible ==
    (pc = "idle" /\ \A m \in 1..Len(features) : features[m].isActive) =>
        \A n \in HeuristicPoints, e \in EndChoices, p \in PreferenceChoices :
            estimateDistance(n, e) <= Plus(MinimumCost(n, e, p), RoundingSlack)

\* C19: getLowestFScore never throws 'No nodes in open set': while the loop
\* runs on a non-empty open set, every entry has a recorded finite g score
\* and a finite f score equal to g plus its distance to end, and a lowest
\* entry exists
C19_EmptyFrontierUnreachable ==
    /\ pc # "emptyfrontier"
    /\ (pc = "searching" /\ openSet # <<>>) =>
           /\ LowestIndex(openSet, fScore) \in 1..Len(openSet)
           /\ \A i \in 1..Len(openSet) :
                  LET k == locationToKey(openSet[i])
                  IN  /\ MapHas(gScore, k) /\ MapHas(fScore, k)
                      /\ gScore[k] < Infinity
                      /\ fScore[k] < Infinity
                      /\ fScore[k] = gScore[k] + estimateDistance(openSet[i], end)

\* the loop is about to select from an open set of several entries, after
\* an expansion some of whose edges were hard-excluded
C19_Witness ==
    /\ pc = "searching"
    /\ Len(openSet) >= 3
    /\ preferences.requiresWheelchairAccess
    /\ \E k \in 1..8 :
           /\ isLocationAccessible(NeighborAt(start, k), preferences)
           /\ calculatePathWeight(start, NeighborAt(start, k), preferences) = Infinity

\* a point of the lattice generated from s, inside the window, is less than
\* 5 m from e (such a point is less than one unit from e in each coordinate)
ArrivalPointExists(s, e) ==
    \E lat \in -WindowRadius..WindowRadius, lon \in -WindowRadius..WindowRadius :
        /\ (lat - s.latitude) % gridSize = 0
        /\ (lon - s.longitude) % gridSize = 0
        /\ isAtDestination(Pt(lat, lon), e)

\* C20: on the empty knowledge base a search does not fail and does not run
\* forever.  (A search that goes on into the unbounded part of the lattice
\* while no lattice point is less than 5 m from end never returns, and its
\* open set never empties: it runs forever.)
C20_OpenSearchReturns ==
    (features = <<>> /\ obstacles = <<>>) =>
        /\ pc \notin {"noroute", "emptyfrontier"}
        /\ ~(pc = "unbounded" /\ ~ArrivalPointExists(start, end))

\* the edge weight on the knowledge base without its inactive features: the
\* loops of calculatePathWeight run on the active features near the segment
WeightWithoutInactive(a, b, prefs) ==
    LET Active(feature) == feature.isActive
    IN  ObstacleLoop(calculateBaseDistance(a, b), findObstaclesOnPath(a, b),
                     SelectSeq(findFeaturesOnPath(a, b), Active), prefs, 1)

\* C21: features with isActive = false have no effect on the edge weight:
\* it is what it would be were they not in the knowledge base
C21_InactiveFeaturesHaveNoEffect ==
    (pc = "idle" /\ removal = Null) =>
        \A a \in SamplePoints, b \in SamplePoints, p \in PreferenceChoices :
            calculatePathWeight(a, b, p) = WeightWithoutInactive(a, b, p)

====
